---- MODULE Spec2Model ----
(***************************************************************************)
(* Model of scripts/detect_faces.py: the per-frame face tracker            *)
(* (detect_faces) and the command-line entry point (__main__).             *)
(*                                                                         *)
(* Numbers.  Coordinates and sizes are the detector's normalized floats,   *)
(* held here in hundredths (0.15 is 15).  Distances are compared by their  *)
(* squares, which orders them as the square roots do.  A timestamp         *)
(* frame_idx / fps is held as the fraction <<frame_idx, fps>>.  The frame  *)
(* rates of the free videos are powers of two (or yield no track of a      *)
(* second), and the faces are chosen so that every comparison the tracker  *)
(* makes between two of them comes out in floating point as it does in the *)
(* exact arithmetic below (a size step of 0.2 - 0.4 is exactly 0.2, while  *)
(* 0.2 - 0.3 taken twice adds up to less than 0.2 and is not used).        *)
(***************************************************************************)
EXTENDS Integers, Sequences, FiniteSets, TLC

VARIABLES
    pc,                 \* position of the process
    argc,               \* len(sys.argv)
    video,              \* the video behind sys.argv[1]
    fps,                \* detect_faces: fps
    max_frame_gap,      \* detect_faces: max_frame_gap
    frame_idx,          \* detect_faces: frame_idx
    tracks,             \* detect_faces: tracks
    next_track_id,      \* detect_faces: next_track_id
    current_detections, \* detect_faces: current_detections of the last analyzed frame
    used_detections,    \* detect_faces: used_detections of the last analyzed frame
    best_idxs,          \* best_idx of each track visited in the last analyzed frame
    spawned,            \* detection indices that created a track in the last analyzed frame
    stdout,             \* the structured results printed so far
    exit_code           \* process exit status, -1 while running

vars == <<pc, argc, video, fps, max_frame_gap, frame_idx, tracks, next_track_id,
          current_detections, used_detections, best_idxs, spawned, stdout, exit_code>>

\* ---------------------------------------------------------------- bounds
MaxFrames == 7

\* ------------------------------------------------------ program constants
\* mutant: another customary frame rate as the fallback
FallbackPal == 20 + 5

FallbackFps == 30
\* mutant: the stride of the comment above the constant
StrideOfComment == 2 + 1

PROCESS_STRIDE == 2
MaxDist == 15
MaxSizeDiff == 20
min_track_duration == 1

\* ------------------------------------------------------------ the inputs
\* relative_bounding_box records of the detector, in hundredths
FaceA == [xmin |-> 40, ymin |-> 40, width |-> 20, height |-> 20, score |-> 90]
FaceB == [xmin |-> 45, ymin |-> 40, width |-> 20, height |-> 20, score |-> 80]
FaceC == [xmin |-> 55, ymin |-> 40, width |-> 20, height |-> 20, score |-> 70]
FaceD == [xmin |-> 30, ymin |-> 40, width |-> 40, height |-> 20, score |-> 60]
FaceG == [xmin |-> 39, ymin |-> 40, width |-> 22, height |-> 20, score |-> 50]

\* the faces that are also detected alone
Faces == {FaceA, FaceB, FaceC, FaceD}

\* the detector's answers tried on each analyzed frame of a free video
DetectionLists ==
    {<<>>} \cup {<<f>> : f \in Faces}
    \cup {<<FaceA, FaceB>>, <<FaceB, FaceA>>, <<FaceC, FaceA>>, <<FaceD, FaceB>>,
          <<FaceG, FaceA>>}

FreeVideos ==
    {[opens |-> TRUE, fps |-> f, frames |-> MaxFrames, script |-> "free",
      last |-> 0, back |-> 0] : f \in {3, 4, 8}}

ScriptedVideos ==
    {[opens |-> TRUE, fps |-> f, frames |-> 60, script |-> "single", last |-> 0, back |-> 0] :
        f \in {0, 30}}
    \cup
    {[opens |-> TRUE, fps |-> 30, frames |-> 60, script |-> s, last |-> 0, back |-> 0] :
        s \in {"two_ab", "two_ba"}}
    \cup
    {[opens |-> TRUE, fps |-> 30, frames |-> 60, script |-> "gap",
      last |-> l, back |-> l + g] : l \in {0, 20}, g \in {14, 16, 18, 20}}

BrokenVideo ==
    [opens |-> FALSE, fps |-> 0, frames |-> 0, script |-> "free", last |-> 0, back |-> 0]

Videos == FreeVideos \cup ScriptedVideos \cup {BrokenVideo}

\* results.detections of the frame at index f of video v
FrameDetections(v, f) ==
    CASE v.script = "free" -> DetectionLists
      [] v.script = "single" -> {<<FaceA>>}
      [] v.script = "two_ab" -> {<<FaceA, FaceB>>}
      [] v.script = "two_ba" -> {<<FaceB, FaceA>>}
      [] v.script = "gap" -> IF f <= v.last \/ f >= v.back THEN {<<FaceA>>} ELSE {<<>>}

\* ------------------------------------------------------------ detect_faces
Detection(bbox) ==
    [x |-> bbox.xmin + bbox.width \div 2,
     y |-> bbox.ymin + bbox.height \div 2,
     w |-> bbox.width,
     h |-> bbox.height,
     score |-> bbox.score]

Normalize(raw) == [i \in 1..Len(raw) |-> Detection(raw[i])]

Timestamp(fidx) == <<fidx, fps>>

Keyframe(timestamp, det) ==
    [t |-> timestamp, x |-> det.x, y |-> det.y, w |-> det.w, h |-> det.h]

Abs(n) == IF n < 0 THEN -n ELSE n

DistSq(det, last_pos) ==
    (det.x - last_pos.x) * (det.x - last_pos.x) + (det.y - last_pos.y) * (det.y - last_pos.y)

SizeDiff(det, last_pos) == Abs(det.w - last_pos.w) + Abs(det.h - last_pos.h)

\* mutant: the gap is counted in analyzed frames, not in frame indices
EligibleByAnalyzedFrames(track, fidx) ==
    ~((fidx - track.last_seen_frame) \div PROCESS_STRIDE > max_frame_gap)

\* mutant: a track is never given up
EligibleAlways(track, fidx) == fidx - track.last_seen_frame >= 0

\* mutant: a gap of exactly max_frame_gap is already too long
EligibleStrict(track, fidx) == fidx - track.last_seen_frame < max_frame_gap

Eligible(track, fidx) == ~(fidx - track.last_seen_frame > max_frame_gap)

\* mutant: a detection as near as the best so far replaces it
CloserOrEqual(det, last_pos, best_dist_sq) ==
    DistSq(det, last_pos) <= best_dist_sq /\ SizeDiff(det, last_pos) < MaxSizeDiff

Closer(det, last_pos, best_dist_sq) ==
    DistSq(det, last_pos) < best_dist_sq /\ SizeDiff(det, last_pos) < MaxSizeDiff

\* mutant: the search stops at the first detection that does not qualify
RECURSIVE FindClosestBreak(_, _, _, _, _, _)
FindClosestBreak(last_pos, dets, used, i, best_dist_sq, best_idx) ==
    IF i >= Len(dets) THEN best_idx
    ELSE IF i \in used THEN FindClosestBreak(last_pos, dets, used, i + 1, best_dist_sq, best_idx)
    ELSE IF Closer(dets[i + 1], last_pos, best_dist_sq)
         THEN FindClosestBreak(last_pos, dets, used, i + 1, DistSq(dets[i + 1], last_pos), i)
         ELSE best_idx

\* mutant: best_dist is never tightened, so the last qualifying detection wins
RECURSIVE FindClosestLast(_, _, _, _, _, _)
FindClosestLast(last_pos, dets, used, i, best_dist_sq, best_idx) ==
    IF i >= Len(dets) THEN best_idx
    ELSE IF i \in used THEN FindClosestLast(last_pos, dets, used, i + 1, best_dist_sq, best_idx)
    ELSE IF Closer(dets[i + 1], last_pos, best_dist_sq)
         THEN FindClosestLast(last_pos, dets, used, i + 1, best_dist_sq, i)
         ELSE FindClosestLast(last_pos, dets, used, i + 1, best_dist_sq, best_idx)

\* mutant: detections already claimed in this frame are not skipped
RECURSIVE FindClosestAnyUsed(_, _, _, _, _, _)
FindClosestAnyUsed(last_pos, dets, used, i, best_dist_sq, best_idx) ==
    IF i >= Len(dets) THEN best_idx
    ELSE IF Closer(dets[i + 1], last_pos, best_dist_sq)
         THEN FindClosestAnyUsed(last_pos, dets, used, i + 1, DistSq(dets[i + 1], last_pos), i)
         ELSE FindClosestAnyUsed(last_pos, dets, used, i + 1, best_dist_sq, best_idx)

\* the loop over enumerate(current_detections); i is the 0-based detection index
RECURSIVE FindClosest(_, _, _, _, _, _)
FindClosest(last_pos, dets, used, i, best_dist_sq, best_idx) ==
    IF i >= Len(dets) THEN best_idx
    ELSE IF i \in used THEN FindClosest(last_pos, dets, used, i + 1, best_dist_sq, best_idx)
    ELSE IF Closer(dets[i + 1], last_pos, best_dist_sq)
         THEN FindClosest(last_pos, dets, used, i + 1, DistSq(dets[i + 1], last_pos), i)
         ELSE FindClosest(last_pos, dets, used, i + 1, best_dist_sq, best_idx)

\* mutant: the track keeps only its latest position
UpdateTrackReplace(track, det, fidx) ==
    [track EXCEPT !.data = <<Keyframe(Timestamp(fidx), det)>>,
                  !.last_seen_frame = fidx]

\* mutant: the new keyframe is put in front of the history
UpdateTrackPrepend(track, det, fidx) ==
    [track EXCEPT !.data = <<Keyframe(Timestamp(fidx), det)>> \o @,
                  !.last_seen_frame = fidx]

\* mutant: the keyframe is appended but last_seen_frame is left as it was
UpdateTrackKeepSeen(track, det, fidx) ==
    [track EXCEPT !.data = Append(@, Keyframe(Timestamp(fidx), det))]

UpdateTrack(track, det, fidx) ==
    [track EXCEPT !.data = Append(@, Keyframe(Timestamp(fidx), det)),
                  !.last_seen_frame = fidx]

\* the loop over tracks; k is the 1-based position in the list
RECURSIVE MatchTracks(_, _, _, _, _, _)
MatchTracks(trs, k, dets, used, bests, fidx) ==
    IF k > Len(trs) THEN [tracks |-> trs, used |-> used, best |-> bests]
    ELSE IF ~Eligible(trs[k], fidx)
         THEN MatchTracks(trs, k + 1, dets, used, Append(bests, -1), fidx)
    ELSE LET last_pos == trs[k].data[Len(trs[k].data)]
             best_idx == FindClosest(last_pos, dets, used, 0, MaxDist * MaxDist, -1)
         IN  IF best_idx # -1
             THEN MatchTracks([trs EXCEPT ![k] = UpdateTrack(@, dets[best_idx + 1], fidx)],
                              k + 1, dets, used \cup {best_idx}, Append(bests, best_idx), fidx)
             ELSE MatchTracks(trs, k + 1, dets, used, Append(bests, -1), fidx)

NewTrack(id, det, fidx) ==
    [id |-> id, data |-> <<Keyframe(Timestamp(fidx), det)>>, last_seen_frame |-> fidx]

\* mutant: every detection creates a track, claimed or not
RECURSIVE SpawnTracksAll(_, _, _, _, _, _, _)
SpawnTracksAll(trs, next_id, dets, used, i, made, fidx) ==
    IF i >= Len(dets) THEN [tracks |-> trs, next |-> next_id, spawned |-> made]
    ELSE SpawnTracksAll(Append(trs, NewTrack(next_id, dets[i + 1], fidx)), next_id + 1,
                        dets, used, i + 1, Append(made, i), fidx)

\* mutant: the id counter is not advanced
RECURSIVE SpawnTracksSameId(_, _, _, _, _, _, _)
SpawnTracksSameId(trs, next_id, dets, used, i, made, fidx) ==
    IF i >= Len(dets) THEN [tracks |-> trs, next |-> next_id, spawned |-> made]
    ELSE IF i \notin used
         THEN SpawnTracksSameId(Append(trs, NewTrack(next_id, dets[i + 1], fidx)), next_id,
                                dets, used, i + 1, Append(made, i), fidx)
         ELSE SpawnTracksSameId(trs, next_id, dets, used, i + 1, made, fidx)

\* the second loop over enumerate(current_detections)
RECURSIVE SpawnTracks(_, _, _, _, _, _, _)
SpawnTracks(trs, next_id, dets, used, i, made, fidx) ==
    IF i >= Len(dets) THEN [tracks |-> trs, next |-> next_id, spawned |-> made]
    ELSE IF i \notin used
         THEN SpawnTracks(Append(trs, NewTrack(next_id, dets[i + 1], fidx)), next_id + 1,
                          dets, used, i + 1, Append(made, i), fidx)
         ELSE SpawnTracks(trs, next_id, dets, used, i + 1, made, fidx)

\* mutant: a track of exactly min_track_duration is dropped
LongEnoughStrict(track) ==
    LET start_time == track.data[1].t
        end_time == track.data[Len(track.data)].t
    IN  end_time[1] * start_time[2] - start_time[1] * end_time[2]
            > min_track_duration * end_time[2] * start_time[2]

\* end_time - start_time >= min_track_duration, on fractions
LongEnough(track) ==
    LET start_time == track.data[1].t
        end_time == track.data[Len(track.data)].t
    IN  end_time[1] * start_time[2] - start_time[1] * end_time[2]
            >= min_track_duration * end_time[2] * start_time[2]

OutputTrack(track) == [id |-> track.id, keyframes |-> track.data]

RECURSIVE FilterTracks(_, _, _)
FilterTracks(trs, k, valid) ==
    IF k > Len(trs) THEN valid
    ELSE IF trs[k].data = <<>> THEN FilterTracks(trs, k + 1, valid)
    ELSE IF LongEnough(trs[k]) THEN FilterTracks(trs, k + 1, Append(valid, OutputTrack(trs[k])))
    ELSE FilterTracks(trs, k + 1, valid)

\* mutant: equal keys come out reversed (an ascending sort that is then reversed)
BeforeStrict(a, b) == Len(a.keyframes) > Len(b.keyframes)

\* list.sort(key=len(keyframes), reverse=True): stable, equal keys keep their order
Before(a, b) == Len(a.keyframes) >= Len(b.keyframes)

RECURSIVE Insert(_, _)
Insert(sorted, t) ==
    IF sorted = <<>> THEN <<t>>
    ELSE IF Before(Head(sorted), t) THEN <<Head(sorted)>> \o Insert(Tail(sorted), t)
    ELSE <<t>> \o sorted

RECURSIVE SortTracks(_, _, _)
SortTracks(valid, k, sorted) ==
    IF k > Len(valid) THEN sorted
    ELSE SortTracks(valid, k + 1, Insert(sorted, valid[k]))

ValidTracks(trs) == SortTracks(FilterTracks(trs, 1, <<>>), 1, <<>>)

\* ---------------------------------------------------------------- actions
Init ==
    /\ pc = "main"
    /\ argc \in {1, 2}
    /\ video \in (IF argc = 1 THEN {BrokenVideo} ELSE Videos)
    /\ fps = 0
    /\ max_frame_gap = 0
    /\ frame_idx = 0
    /\ tracks = <<>>
    /\ next_track_id = 0
    /\ current_detections = <<>>
    /\ used_detections = {}
    /\ best_idxs = <<>>
    /\ spawned = <<>>
    /\ stdout = <<>>
    /\ exit_code = -1

\* __main__: no path argument
MissingPath ==
    /\ pc = "main"
    /\ argc < 2
    /\ stdout' = Append(stdout, <<"error", "Missing video path">>)
    /\ exit_code' = 1
    /\ pc' = "done"
    /\ UNCHANGED <<argc, video, fps, max_frame_gap, frame_idx, tracks, next_track_id,
                   current_detections, used_detections, best_idxs, spawned>>

\* mutant: the return after the error is missing
OpenFailsNoReturn ==
    /\ pc = "main"
    /\ argc >= 2
    /\ ~video.opens
    /\ stdout' = Append(stdout, <<"error", "Could not open video">>)
    /\ fps' = FallbackFps
    /\ max_frame_gap' = (FallbackFps * 5) \div 10
    /\ pc' = "loop"
    /\ UNCHANGED <<argc, video, frame_idx, tracks, next_track_id, current_detections,
                   used_detections, best_idxs, spawned, exit_code>>

\* __main__ calls detect_faces, which finds the capture not opened and returns
OpenFails ==
    /\ pc = "main"
    /\ argc >= 2
    /\ ~video.opens
    /\ stdout' = Append(stdout, <<"error", "Could not open video">>)
    /\ exit_code' = 0
    /\ pc' = "done"
    /\ UNCHANGED <<argc, video, fps, max_frame_gap, frame_idx, tracks, next_track_id,
                   current_detections, used_detections, best_idxs, spawned>>

\* __main__ calls detect_faces, which opens the capture and sets up the tracker
OpenVideo ==
    /\ pc = "main"
    /\ argc >= 2
    /\ video.opens
    /\ LET f == IF video.fps <= 0 THEN FallbackFps ELSE video.fps
       IN  /\ fps' = f
           /\ max_frame_gap' = (f * 5) \div 10
    /\ tracks' = <<>>
    /\ next_track_id' = 0
    /\ frame_idx' = 0
    /\ pc' = "loop"
    /\ UNCHANGED <<argc, video, current_detections, used_detections, best_idxs, spawned,
                   stdout, exit_code>>

\* mutant: a failed read is raised as an error
ReadFailsRaises ==
    /\ pc = "loop"
    /\ pc' = "except"
    /\ UNCHANGED <<argc, video, fps, max_frame_gap, frame_idx, tracks, next_track_id,
                   current_detections, used_detections, best_idxs, spawned, stdout, exit_code>>

\* cap.read() fails: break
ReadFails ==
    /\ pc = "loop"
    /\ pc' = "finalize"
    /\ UNCHANGED <<argc, video, fps, max_frame_gap, frame_idx, tracks, next_track_id,
                   current_detections, used_detections, best_idxs, spawned, stdout, exit_code>>

\* a frame that is read and skipped
SkipFrame ==
    /\ pc = "loop"
    /\ frame_idx < video.frames
    /\ frame_idx % PROCESS_STRIDE # 0
    /\ frame_idx' = frame_idx + 1
    /\ UNCHANGED <<pc, argc, video, fps, max_frame_gap, tracks, next_track_id,
                   current_detections, used_detections, best_idxs, spawned, stdout, exit_code>>

\* a frame that is read and analyzed
ProcessFrame ==
    /\ pc = "loop"
    /\ frame_idx < video.frames
    /\ frame_idx % PROCESS_STRIDE = 0
    /\ \E raw \in FrameDetections(video, frame_idx) :
          LET dets == Normalize(raw)
              m == MatchTracks(tracks, 1, dets, {}, <<>>, frame_idx)
              s == SpawnTracks(m.tracks, next_track_id, dets, m.used, 0, <<>>, frame_idx)
          IN  /\ current_detections' = dets
              /\ used_detections' = m.used
              /\ best_idxs' = m.best
              /\ tracks' = s.tracks
              /\ next_track_id' = s.next
              /\ spawned' = s.spawned
    /\ frame_idx' = frame_idx + 1
    /\ UNCHANGED <<pc, argc, video, fps, max_frame_gap, stdout, exit_code>>

\* an exception is raised while a read frame is processed and leaves detect_faces
Raise ==
    /\ pc = "loop"
    /\ frame_idx < video.frames
    /\ pc' = "except"
    /\ UNCHANGED <<argc, video, fps, max_frame_gap, frame_idx, tracks, next_track_id,
                   current_detections, used_detections, best_idxs, spawned, stdout, exit_code>>

\* __main__: except Exception
HandleException ==
    /\ pc = "except"
    /\ stdout' = Append(stdout, <<"error", "exception">>)
    /\ exit_code' = 1
    /\ pc' = "done"
    /\ UNCHANGED <<argc, video, fps, max_frame_gap, frame_idx, tracks, next_track_id,
                   current_detections, used_detections, best_idxs, spawned>>

\* after the loop: filter, sort, print, return to __main__
Finalize ==
    /\ pc = "finalize"
    /\ stdout' = Append(stdout, <<"tracks", ValidTracks(tracks)>>)
    /\ exit_code' = 0
    /\ pc' = "done"
    /\ UNCHANGED <<argc, video, fps, max_frame_gap, frame_idx, tracks, next_track_id,
                   current_detections, used_detections, best_idxs, spawned>>

Next ==
    \/ MissingPath
    \/ OpenFails
    \/ OpenVideo
    \/ ReadFails
    \/ SkipFrame
    \/ ProcessFrame
    \/ Raise
    \/ HandleException
    \/ Finalize

Spec == Init /\ [][Next]_vars

\* the process is sequential and never waits: while a statement is left to
\* run, one runs
FairSpec == Spec /\ WF_vars(Next)

\* ----------------------------------------------------------------- claims
\* the run printed a track list
Emitted == pc = "done" /\ stdout # <<>> /\ stdout[Len(stdout)][1] = "tracks"

valid_tracks == stdout[Len(stdout)][2]

\* frames between the first and the last keyframe of a track
FrameSpan(data) == data[Len(data)].t[1] - data[1].t[1]

\* C1: the emitted list holds exactly the tracks whose last keyframe is at least
\* 1.0 s (fps frames) after their first, each once, with its id and all its
\* keyframes; shorter tracks are never emitted.
C1_EmittedIffOneSecond ==
    Emitted =>
        /\ \A j \in 1..Len(valid_tracks) :
              \E k \in 1..Len(tracks) :
                 /\ valid_tracks[j] = [id |-> tracks[k].id, keyframes |-> tracks[k].data]
                 /\ FrameSpan(tracks[k].data) >= fps
        /\ \A k \in 1..Len(tracks) :
              FrameSpan(tracks[k].data) >= fps =>
                 Cardinality({j \in 1..Len(valid_tracks) : valid_tracks[j].id = tracks[k].id}) = 1

\* a track of exactly one second is emitted while a shorter track of several
\* keyframes is left out
C1_Witness ==
    /\ Emitted
    /\ \E j \in 1..Len(valid_tracks) : FrameSpan(valid_tracks[j].keyframes) = fps
    /\ \E k \in 1..Len(tracks) :
          /\ Len(tracks[k].data) >= 2
          /\ FrameSpan(tracks[k].data) < fps
          /\ \A j \in 1..Len(valid_tracks) : valid_tracks[j].id # tracks[k].id

TimeLeq(a, b) == a[1] * b[2] <= b[1] * a[2]

NonDecreasing(data) == \A i \in 1..(Len(data) - 1) : TimeLeq(data[i].t, data[i + 1].t)

\* C3: in every state the keyframes of every track, and of every emitted entry,
\* are in non-decreasing order of timestamp.
C3_KeyframesOrdered ==
    /\ \A k \in 1..Len(tracks) : NonDecreasing(tracks[k].data)
    /\ Emitted => \A j \in 1..Len(valid_tracks) : NonDecreasing(valid_tracks[j].keyframes)

\* an emitted track of several keyframes that skipped an analyzed frame
C3_Witness ==
    /\ Emitted
    /\ \E j \in 1..Len(valid_tracks) :
          LET kf == valid_tracks[j].keyframes
          IN  Len(kf) >= 3 /\ \E i \in 1..(Len(kf) - 1) : kf[i + 1].t[1] - kf[i].t[1] > PROCESS_STRIDE

\* index of the last analyzed frame, once a frame has been analyzed
LastFrame == ((frame_idx - 1) \div PROCESS_STRIDE) * PROCESS_STRIDE

LastPos(track) == track.data[Len(track.data)]

\* det passes both matching constraints against the last keyframe of track
Qualifies(det, track) ==
    /\ DistSq(det, LastPos(track)) < MaxDist * MaxDist
    /\ SizeDiff(det, LastPos(track)) < MaxSizeDiff

\* C4: in the last analyzed frame the tracks that existed before it appended
\* keyframes from pairwise different detection indices, each appended keyframe
\* is the detection its track claimed, no claimed detection created a track,
\* and the claimed detections are no more than the detections of the frame.
C4_DetectionClaimedOnce ==
    frame_idx >= 1 =>
        LET n == Len(best_idxs)
            ts == <<LastFrame, fps>>
        IN  /\ n + Len(spawned) = Len(tracks)
            /\ \A k \in 1..n :
                  /\ best_idxs[k] # -1 <=> LastPos(tracks[k]).t = ts
                  /\ best_idxs[k] # -1 =>
                        /\ best_idxs[k] \in 0..(Len(current_detections) - 1)
                        /\ LastPos(tracks[k]) = Keyframe(ts, current_detections[best_idxs[k] + 1])
            /\ \A k \in 1..n : \A l \in 1..n :
                  (k # l /\ best_idxs[k] # -1) => best_idxs[k] # best_idxs[l]
            /\ \A i \in 1..Len(spawned) : \A k \in 1..n : best_idxs[k] # spawned[i]
            /\ used_detections = {best_idxs[k] : k \in 1..n} \ {-1}
            /\ Cardinality(used_detections) <= Len(current_detections)

\* two tracks wanted the same detection: the earlier one took it, the later one,
\* still within the gap tolerance, got nothing, and another detection of the
\* frame created a track
C4_Witness ==
    /\ frame_idx >= 1
    /\ spawned # <<>>
    /\ \E k \in 1..Len(best_idxs) : \E l \in 1..Len(best_idxs) :
          /\ k < l
          /\ best_idxs[k] # -1
          /\ best_idxs[l] = -1
          /\ LastFrame - tracks[l].last_seen_frame <= max_frame_gap
          /\ Qualifies(current_detections[best_idxs[k] + 1], tracks[l])

\* C5: last_seen_frame of a track changes only in a step that appends one
\* keyframe to it, at the current frame index; so in every state the last
\* keyframe of a track is stamped last_seen_frame / fps.
C5_LastSeenIsLastKeyframe ==
    /\ [](\A k \in 1..Len(tracks) : LastPos(tracks[k]).t = <<tracks[k].last_seen_frame, fps>>)
    /\ [][\A k \in 1..Len(tracks) :
            tracks'[k].last_seen_frame # tracks[k].last_seen_frame =>
                /\ Len(tracks'[k].data) = Len(tracks[k].data) + 1
                /\ SubSeq(tracks'[k].data, 1, Len(tracks[k].data)) = tracks[k].data
                /\ tracks'[k].last_seen_frame = frame_idx]_vars

\* a track of several keyframes went without a keyframe in the last analyzed
\* frame while another track got one
C5_Witness ==
    /\ frame_idx >= 1
    /\ \E k \in 1..Len(best_idxs) : \E l \in 1..Len(best_idxs) :
          /\ Len(tracks[k].data) >= 2
          /\ best_idxs[k] = -1
          /\ tracks[k].last_seen_frame < LastFrame
          /\ best_idxs[l] # -1
          /\ tracks[l].last_seen_frame = LastFrame

\* C6: the track at position i of the list (the i-th created) has id i - 1, so the
\* ids are exactly 0 .. next_track_id - 1 without repetition; a track keeps its
\* id and next_track_id never decreases.
C6_TrackIdsSequential ==
    /\ [](/\ Len(tracks) = next_track_id
          /\ \A k \in 1..Len(tracks) : tracks[k].id = k - 1)
    /\ [][/\ next_track_id' >= next_track_id
          /\ \A k \in 1..Len(tracks) : tracks'[k].id = tracks[k].id]_vars

\* tracks created in different frames, two of them in the last analyzed frame
C6_Witness ==
    /\ Len(spawned) = 2
    /\ Len(tracks) >= 4
    /\ \E k \in 1..Len(tracks) : tracks[k].data[1].t[1] < LastFrame

\* C7: in an analyzed frame a track whose gap frame_idx - last_seen_frame exceeds
\* floor(fps / 2) is left as it is, and a track whose gap is at most that gets a
\* keyframe whenever some detection of the frame passes both constraints
\* against it and is claimed by no other track.  When one face is seen up to
\* frame `last` and again from frame `back`, more than floor(fps / 2) frames
\* later (0.6 s at 30 fps is 18 frames), no track has keyframes from both sides,
\* and once the face is back there are exactly two tracks, ids 0 and 1.
C7_GapTolerance ==
    /\ [][(pc = "loop" /\ frame_idx % PROCESS_STRIDE = 0 /\ frame_idx' = frame_idx + 1) =>
            \A k \in 1..Len(tracks) :
               LET gap == frame_idx - tracks[k].last_seen_frame
               IN  /\ gap > fps \div 2 => tracks'[k] = tracks[k]
                   /\ ( /\ gap <= fps \div 2
                        /\ \E i \in 1..Len(current_detections') :
                              /\ Qualifies(current_detections'[i], tracks[k])
                              /\ \A l \in (1..Len(tracks)) \ {k} : best_idxs'[l] # i - 1 )
                       => /\ Len(tracks'[k].data) = Len(tracks[k].data) + 1
                          /\ tracks'[k].last_seen_frame = frame_idx]_vars
    /\ []((video.script = "gap" /\ pc # "main" /\ video.back - video.last > fps \div 2) =>
            /\ \A k \in 1..Len(tracks) :
                  \/ \A i \in 1..Len(tracks[k].data) : tracks[k].data[i].t[1] <= video.last
                  \/ \A i \in 1..Len(tracks[k].data) : tracks[k].data[i].t[1] >= video.back
            /\ frame_idx > video.back =>
                  /\ Len(tracks) = 2
                  /\ tracks[1].id = 0 /\ tracks[1].last_seen_frame = video.last
                  /\ tracks[2].id = 1 /\ tracks[2].data[1].t[1] = video.back)

\* the face was away for 0.6 s at 30 fps, came back at the same place, and the
\* run ended with two tracks
C7_Witness ==
    /\ pc = "done"
    /\ video.script = "gap"
    /\ fps = 30
    /\ video.back - video.last = 18
    /\ frame_idx > video.back + PROCESS_STRIDE
    /\ Len(tracks) = 2
    /\ tracks[1].data[1].x = tracks[2].data[1].x

\* C8: with the two faces A and B (centers 0.05 apart, same size) detected in
\* every analyzed frame, in either order, there are exactly two tracks after any
\* number n >= 1 of analyzed frames, each with n keyframes, all at the position
\* of one face, one track per face.
C8_TwoNearFacesKeepApart ==
    (video.script \in {"two_ab", "two_ba"} /\ pc # "main") =>
        LET n == (frame_idx + PROCESS_STRIDE - 1) \div PROCESS_STRIDE
            At(k, face) ==
                \A i \in 1..Len(tracks[k].data) :
                    tracks[k].data[i] = Keyframe(tracks[k].data[i].t, Detection(face))
        IN  /\ DistSq(Detection(FaceA), Detection(FaceB)) = 5 * 5
            /\ n = 0 => tracks = <<>>
            /\ n >= 1 =>
                  /\ Len(tracks) = 2
                  /\ Len(tracks[1].data) = n
                  /\ Len(tracks[2].data) = n
                  /\ \/ At(1, FaceA) /\ At(2, FaceB)
                     \/ At(1, FaceB) /\ At(2, FaceA)

\* thirty analyzed frames of the two faces, second face listed first
C8_Witness ==
    /\ Emitted
    /\ video.script = "two_ba"
    /\ frame_idx = 60
    /\ Len(valid_tracks) = 2
    /\ Len(tracks[2].data) = 30

\* C9: after all 60 frames of the one-face video at 30 fps there is one track,
\* id 0, with 30 keyframes, spanning at least a second, and the emitted list is
\* that track alone.
C9_SingleFaceOneTrack ==
    (video.script = "single" /\ video.frames = 60 /\ fps = 30 /\ frame_idx = 60) =>
        /\ Len(tracks) = 1
        /\ tracks[1].id = 0
        /\ Len(tracks[1].data) = 30
        /\ FrameSpan(tracks[1].data) >= fps
        /\ Emitted => valid_tracks = <<[id |-> 0, keyframes |-> tracks[1].data]>>

\* the run over the one-face video printed its track list
C9_Witness ==
    /\ Emitted
    /\ video.script = "single"
    /\ video.fps = 30
    /\ frame_idx = 60
    /\ Len(valid_tracks) = 1

\* C10: at most one result is ever printed and a finished run has printed
\* exactly one, an error or a track list; a video that does not open gives the
\* error "Could not open video" with no frame read and no track built; when an
\* exception leaves the frame loop nothing has been printed, and the one result
\* then printed is an error.
C10_OneResult ==
    /\ [](/\ Len(stdout) <= 1
          /\ pc = "done" <=> Len(stdout) = 1
          /\ \A i \in 1..Len(stdout) : stdout[i][1] \in {"error", "tracks"}
          /\ (pc = "done" /\ argc >= 2 /\ ~video.opens) =>
                /\ stdout = << <<"error", "Could not open video">> >>
                /\ tracks = <<>>
                /\ frame_idx = 0
          /\ pc = "except" => stdout = <<>>)
    /\ [][pc = "except" => (pc' = "done" /\ Len(stdout') = 1 /\ stdout'[1][1] = "error")]_vars

\* an exception ended a run that had already built a track of a second: the
\* only result is the error
C10_Witness ==
    /\ pc = "done"
    /\ stdout = << <<"error", "exception">> >>
    /\ \E k \in 1..Len(tracks) : FrameSpan(tracks[k].data) >= fps

\* C11: a finished run has a non-zero exit status exactly when its result is an
\* error object (no path argument, a video that does not open, an exception),
\* and status zero when it printed a track list.
C11_ErrorExitsNonZero ==
    pc = "done" => (exit_code # 0 <=> stdout[Len(stdout)][1] = "error")

\* C12: a failed read leaves the loop for finalization with the tracks and the
\* frame index as they are; finalization analyzes nothing more and prints, with
\* status 0, the track list of exactly the tracks of a second or more built so
\* far; a read that fails at the end of the stream always leads to that track
\* list, and every run ends.
C12_ReadFailureFinalizes ==
    /\ [][(pc = "loop" /\ pc' = "finalize") => UNCHANGED <<tracks, frame_idx, stdout>>]_vars
    /\ [][pc = "finalize" =>
            /\ pc' = "done"
            /\ UNCHANGED <<tracks, frame_idx>>
            /\ exit_code' = 0
            /\ Len(stdout') = 1
            /\ stdout'[1][1] = "tracks"
            /\ {stdout'[1][2][j].id : j \in 1..Len(stdout'[1][2])}
                  = {tracks[k].id : k \in {l \in 1..Len(tracks) : FrameSpan(tracks[l].data) >= fps}}]_vars
    /\ (pc = "loop" /\ frame_idx = video.frames) ~> Emitted
    /\ pc = "finalize" ~> Emitted
    /\ <>(pc = "done")

\* a read failed before the end of the video and the run printed the tracks it
\* had, one of them long enough to be listed
C12_Witness ==
    /\ Emitted
    /\ frame_idx < video.frames
    /\ frame_idx > 0
    /\ Len(tracks) >= 2
    /\ Len(valid_tracks) >= 1

\* the step that analyzes the frame at frame_idx
AnalyzeStep == pc = "loop" /\ frame_idx % PROCESS_STRIDE = 0 /\ frame_idx' = frame_idx + 1

\* C13: in an analyzed frame, for every track within the gap tolerance, taken in
\* list (ascending id) order: among the detections no earlier track claimed in
\* this frame whose squared distance to the track's last keyframe is below
\* 0.15^2 and whose size difference is below 0.2, the track claims one of least
\* distance, the lowest index among equals, and appends it; when there is
\* none, the track is left as it is.
C13_NearestQualifyingDetection ==
    [][AnalyzeStep =>
        \A k \in 1..Len(tracks) :
            frame_idx - tracks[k].last_seen_frame <= fps \div 2 =>
                LET dets == current_detections'
                    D(i) == DistSq(dets[i + 1], LastPos(tracks[k]))
                    avail == {i \in 0..(Len(dets) - 1) :
                                 /\ \A l \in 1..(k - 1) : best_idxs'[l] # i
                                 /\ D(i) < 15 * 15
                                 /\ SizeDiff(dets[i + 1], LastPos(tracks[k])) < 20}
                    b == best_idxs'[k]
                IN  /\ tracks[k].id = k - 1
                    /\ avail = {} => (b = -1 /\ tracks'[k] = tracks[k])
                    /\ avail # {} =>
                          /\ b \in avail
                          /\ \A j \in avail : D(b) < D(j) \/ (D(b) = D(j) /\ b <= j)
                          /\ tracks'[k].data =
                                Append(tracks[k].data, Keyframe(<<frame_idx, fps>>, dets[b + 1]))]_vars

\* tracks 0 and 1 ended on face B and on face A; faces G and A, both at the
\* place of A, were then listed in that order: track 0 took G, the first of
\* two equally distant detections, and track 1 took A, which was left
C13_Witness ==
    /\ Len(best_idxs) >= 2
    /\ current_detections = Normalize(<<FaceG, FaceA>>)
    /\ best_idxs[1] = 0
    /\ best_idxs[2] = 1
    /\ Len(tracks[1].data) >= 2
    /\ tracks[1].data[Len(tracks[1].data) - 1].x = Detection(FaceB).x
    /\ LastPos(tracks[1]).w = FaceG.width

\* C14: once frame_idx - last_seen_frame of a track exceeds floor(fps / 2), no
\* step changes the track (no keyframe, same last_seen_frame, same history,
\* still in the list at its place) and the gap does not shrink, so this stays
\* so until the run ends.
C14_InactiveForGood ==
    [][\A k \in 1..Len(tracks) :
          (pc \in {"loop", "finalize", "except"}
             /\ frame_idx - tracks[k].last_seen_frame > fps \div 2) =>
                /\ Len(tracks') >= k
                /\ tracks'[k] = tracks[k]
                /\ fps' = fps
                /\ frame_idx' >= frame_idx]_vars

\* track 0 has a history of several keyframes, was given up, and the face it
\* followed was later found again at the very same place by a newer track
C14_Witness ==
    /\ pc = "done"
    /\ Len(tracks) >= 2
    /\ Len(tracks[1].data) >= 2
    /\ \E k \in 2..Len(tracks) :
          /\ tracks[k].data[1].t[1] - tracks[1].last_seen_frame > fps \div 2
          /\ tracks[k].data[1] = Keyframe(tracks[k].data[1].t, LastPos(tracks[1]))

\* C15: no step removes a track or changes the id of one, and every step leaves
\* the keyframes of each existing track as they are or appends exactly one
\* keyframe to them.
C15_TracksOnlyGrowByOne ==
    [][\A k \in 1..Len(tracks) :
          /\ Len(tracks') >= Len(tracks)
          /\ tracks'[k].id = tracks[k].id
          /\ \/ tracks'[k].data = tracks[k].data
             \/ /\ Len(tracks'[k].data) = Len(tracks[k].data) + 1
                /\ SubSeq(tracks'[k].data, 1, Len(tracks[k].data)) = tracks[k].data]_vars

\* in the last analyzed frame one older track of several keyframes got its
\* next keyframe, another older track got none, and a new track was created
C15_Witness ==
    /\ frame_idx >= 1
    /\ spawned # <<>>
    /\ \E k \in 1..Len(best_idxs) : \E l \in 1..Len(best_idxs) :
          /\ best_idxs[k] # -1
          /\ Len(tracks[k].data) >= 3
          /\ best_idxs[l] = -1
          /\ Len(tracks[l].data) >= 2

\* number of keyframes of all tracks
RECURSIVE TotalKeyframes(_)
TotalKeyframes(trs) ==
    IF trs = <<>> THEN 0 ELSE Len(Head(trs).data) + TotalKeyframes(Tail(trs))

\* C16: an analyzed frame matches only the tracks that existed before it and
\* then appends one new track per detection none of them claimed, in detection
\* order, with the next ids, one keyframe equal to the detection and
\* last_seen_frame the frame index; the keyframes of all tracks grow by the
\* number of detections of the frame, and by nothing in any other step.
C16_UnclaimedDetectionsSpawn ==
    /\ [][AnalyzeStep =>
            LET n == Len(tracks)
                dets == current_detections'
                free == {i \in 0..(Len(dets) - 1) : \A l \in 1..n : best_idxs'[l] # i}
            IN  /\ Len(best_idxs') = n
                /\ {spawned'[j] : j \in 1..Len(spawned')} = free
                /\ \A j \in 1..(Len(spawned') - 1) : spawned'[j] < spawned'[j + 1]
                /\ Len(tracks') = n + Cardinality(free)
                /\ next_track_id' = next_track_id + Cardinality(free)
                /\ \A j \in 1..Len(spawned') :
                      tracks'[n + j] =
                         [id |-> next_track_id + j - 1,
                          data |-> <<Keyframe(<<frame_idx, fps>>, dets[spawned'[j] + 1])>>,
                          last_seen_frame |-> frame_idx]
                /\ TotalKeyframes(tracks') = TotalKeyframes(tracks) + Len(dets)]_vars
    /\ [][~AnalyzeStep => TotalKeyframes(tracks') = TotalKeyframes(tracks)]_vars

\* of the two detections of the last analyzed frame the second was claimed by
\* an older track and the first created a track
C16_Witness ==
    /\ Len(current_detections) = 2
    /\ used_detections = {1}
    /\ spawned = <<0>>
    /\ Len(tracks) >= 3
    /\ LastPos(tracks[Len(tracks)]) = Keyframe(<<LastFrame, fps>>, current_detections[1])

C18_SpawnOnlyWhenUnmatchable ==
    [][AnalyzeStep =>
        \A k \in 1..Len(tracks) :
            (frame_idx - tracks[k].last_seen_frame <= fps \div 2 /\ tracks'[k] = tracks[k]) =>
                \A j \in 1..Len(spawned') :
                    LET det == current_detections'[spawned'[j] + 1]
                    IN  \/ DistSq(det, LastPos(tracks[k])) >= 15 * 15
                        \/ SizeDiff(det, LastPos(tracks[k])) >= 20]_vars

\* a track within the gap tolerance got nothing in the last analyzed frame,
\* whose detections created two tracks: one exactly 0.15 away from the track,
\* one at its place but exactly 0.2 apart in size
C18_Witness ==
    /\ frame_idx >= 1
    /\ \E k \in 1..Len(best_idxs) : \E l \in 1..Len(best_idxs) :
          /\ best_idxs[k] = -1
          /\ best_idxs[l] = -1
          /\ LastFrame - tracks[k].last_seen_frame <= max_frame_gap
          /\ LastFrame - tracks[l].last_seen_frame <= max_frame_gap
          /\ \E j \in 1..Len(spawned) :
                DistSq(current_detections[spawned[j] + 1], LastPos(tracks[k])) = MaxDist * MaxDist
          /\ \E j \in 1..Len(spawned) :
                /\ DistSq(current_detections[spawned[j] + 1], LastPos(tracks[l])) = 0
                /\ SizeDiff(current_detections[spawned[j] + 1], LastPos(tracks[l])) = MaxSizeDiff

\* C19: at a frame rate above 0 and below 4 the gap tolerance is below the
\* stride: every track has one keyframe, no detection is ever claimed, each
\* creates its own track, and the emitted list is empty.
C19_LowFrameRateNoTracks ==
    (pc # "main" /\ fps > 0 /\ fps < 4) =>
        /\ max_frame_gap < 2
        /\ \A k \in 1..Len(tracks) : Len(tracks[k].data) = 1
        /\ used_detections = {}
        /\ \A k \in 1..Len(best_idxs) : best_idxs[k] = -1
        /\ Len(spawned) = Len(current_detections)
        /\ Emitted => valid_tracks = <<>>

\* at 3 frames per second the same face, seen in every analyzed frame of the
\* video, gave four tracks and an empty list
C19_Witness ==
    /\ Emitted
    /\ fps = 3
    /\ valid_tracks = <<>>
    /\ Len(tracks) = 4
    /\ \A k \in 1..4 : tracks[k].data = <<Keyframe(<<2 * (k - 1), 3>>, Detection(FaceA))>>

====
